---------------------------- MODULE Spec2Model ----------------------------
(***************************************************************************)
(* A model of the scalar helpers of gf (include/gf/Math.h): almostEquals,  *)
(* the step functions, lerp, clamp, sign and absdiff.                      *)
(*                                                                         *)
(* The helpers are templates.  They are modelled for the instantiations    *)
(* that the properties are about:                                          *)
(*   - T = a signed W-bit integer type   (IntT),                           *)
(*   - T = an unsigned W-bit integer type (UIntT, arithmetic modulo 2^W),  *)
(*   - T = a binary floating-point type with P significand bits, gradual   *)
(*     underflow and round-to-nearest-even (an IEEE 754 format, scaled     *)
(*     down from float's 24 bits so that the values can be enumerated).    *)
(*                                                                         *)
(* A floating-point value is represented by the integer number of          *)
(* denorm_min units it is worth: denorm_min is 1, the value 1.0 is 2^S.    *)
(* Every floating-point operation is the exact operation followed by one   *)
(* rounding (RN), as IEEE 754 specifies.  Only finite arguments are fed to *)
(* the helpers; an operation that overflows yields Inf.  +0 and -0 are     *)
(* one value (they compare equal in the code).                             *)
(*                                                                         *)
(* The state machine is a single caller: from the idle state it calls one  *)
(* helper with arguments (a, b, c) and records what the helper returned    *)
(* in ret (numbers) or flag (booleans); Return goes back to idle.          *)
(***************************************************************************)
EXTENDS Integers, Sequences, FiniteSets, TLC

VARIABLES fn, ty, a, b, c, ret, flag

vars == <<fn, ty, a, b, c, ret, flag>>

(***************************************************************************)
(* Bounds of the model.                                                    *)
(***************************************************************************)
\* width of the integer types
W == 4
\* significand bits of the floating-point type (at least 4: 15 is exact)
P == 4
\* 1.0 is 2^S denorm_min units
S == 5
\* integer arguments of the step functions are -MaxStepArg..MaxStepArg
MaxStepArg == 8
\* small integer arguments of lerp are -MaxLerpArg..MaxLerpArg
MaxLerpArg == 9

(***************************************************************************)
(* The integer types.                                                      *)
(***************************************************************************)
IntT == -(2^(W-1)) .. (2^(W-1) - 1)

UIntT == 0 .. (2^W - 1)

\* conversion of a mathematical integer to the unsigned type: modulo 2^W
ToUnsigned(x) == ((x % (2^W)) + 2^W) % (2^W)

(***************************************************************************)
(* The floating-point type.                                                *)
(***************************************************************************)
\* std::numeric_limits<T>::denorm_min()
DenormMin == 1

One == 2^S

Half == 2^(S-1)

\* the largest exponent: the largest finite value is just below 2^(S+P+2)
EMax == S + 2

\* std::numeric_limits<T>::max()
MaxFloat == (2^P - 1) * 2^EMax

\* the result of an operation that overflows (+infinity); -Inf is -infinity
Inf == 2 * MaxFloat

\* std::numeric_limits<T>::epsilon(): the gap between 1.0 and the next value
MachineEpsilon == 2^(S + 1 - P)

RECURSIVE UlpFrom(_, _, _)
\* the spacing of the floating-point values around n/den (n >= 0, den > 0)
UlpFrom(n, den, u) ==
  IF n < (2^P) * u * den THEN u ELSE UlpFrom(n, den, 2 * u)

\* round-to-nearest, ties-to-even, of the rational num/den (den > 0)
RN(num, den) ==
  LET s  == IF num < 0 THEN -1 ELSE 1
      n  == s * num
      u  == UlpFrom(n, den, 1)
      q  == n \div (den * u)
      r  == n - q * den * u
      up == (2 * r > den * u) \/ (2 * r = den * u /\ q % 2 = 1)
      v  == (IF up THEN q + 1 ELSE q) * u
  IN IF v > MaxFloat THEN s * Inf ELSE s * v

\* all finite values of the floating-point type
Floats == { x \in (-MaxFloat)..MaxFloat : RN(x, 1) = x }

FAdd(x, y) == RN(x + y, 1)

FSub(x, y) == RN(x - y, 1)

FMul(x, y) == RN(x * y, One)

\* x may be +-Inf (an overflowed difference); y is finite and not zero
FDiv(x, y) ==
  IF x = Inf \/ x = -Inf
  THEN (IF (x > 0) = (y > 0) THEN Inf ELSE -Inf)
  ELSE IF y > 0 THEN RN(x * One, y) ELSE RN(-(x * One), -y)

FNeg(x) == -x

\* std::abs
FAbs(x) == IF x < 0 THEN -x ELSE x

\* conversion of an integer to the floating-point type (T(2), int -> U)
FromInt(i) == RN(i * One, 1)

\* conversion of a floating-point value to an integer type: truncation
ToInt(x) == IF x < 0 THEN -((-x) \div One) ELSE x \div One


(***************************************************************************)
(* pi<T>() and std::cos.                                                   *)
(***************************************************************************)
\* the literal 3.14159265358979..., as the fraction PiNum / PiDen
PiNum == 3141593

PiDen == 1000000

\* pi<T>(): the literal converted to T
pi == RN(PiNum * One, PiDen)

\* the fixed-point scale at which the cosine series is summed
CosScale == 2^12

RECURSIVE CosTerm(_, _)
\* x^(2k) / (2k)! at scale CosScale, for x = n / One
CosTerm(n, k) ==
  IF k = 0 THEN CosScale
  ELSE (CosTerm(n, k - 1) * (n * n)) \div (One * One * (2 * k - 1) * (2 * k))

\* std::cos(x), 0 <= x <= 4: the Taylor series of the cosine, rounded to T
Cos(n) ==
  LET pos == CosTerm(n, 0) + CosTerm(n, 2) + CosTerm(n, 4) + CosTerm(n, 6)
             + CosTerm(n, 8)
      neg == CosTerm(n, 1) + CosTerm(n, 3) + CosTerm(n, 5) + CosTerm(n, 7)
  IN RN((pos - neg) * One, CosScale)

(***************************************************************************)
(* The helpers of Math.h.  A name ending in F is the instantiation for the *)
(* floating-point type, in I for a signed integer type.                    *)
(***************************************************************************)
\* almostEquals without its first test (a == b)
almostEqualsNoShortcut(x, y, epsilon) ==
  LET diff == FAbs(FSub(x, y)) IN
  IF x = 0 \/ y = 0 \/ diff < DenormMin
  THEN diff < FMul(epsilon, DenormMin)
  ELSE LET sum0 == FAdd(FAbs(x), FAbs(y))
           sum  == IF sum0 < MaxFloat THEN sum0 ELSE MaxFloat
       IN FDiv(diff, sum) < epsilon

\* almostEquals comparing the difference near zero with epsilon itself
almostEqualsAbsEps(x, y, epsilon) ==
  IF x = y THEN TRUE
  ELSE LET diff == FAbs(FSub(x, y)) IN
       IF x = 0 \/ y = 0 \/ diff < DenormMin
       THEN diff < epsilon
       ELSE LET sum0 == FAdd(FAbs(x), FAbs(y))
                sum  == IF sum0 < MaxFloat THEN sum0 ELSE MaxFloat
            IN FDiv(diff, sum) < epsilon

almostEquals(x, y, epsilon) ==
  IF x = y THEN TRUE
  ELSE LET diff == FAbs(FSub(x, y)) IN
       IF x = 0 \/ y = 0 \/ diff < DenormMin
       THEN diff < FMul(epsilon, DenormMin)
       ELSE LET sum0 == FAdd(FAbs(x), FAbs(y))
                sum  == IF sum0 < MaxFloat THEN sum0 ELSE MaxFloat
            IN FDiv(diff, sum) < epsilon

linearStepF(t) == t

\* cubicStep with its two coefficients exchanged
cubicStepFSwapped(t) ==
  FMul(FMul(FAdd(FMul(FNeg(FromInt(3)), t), FromInt(2)), t), t)

cubicStepF(t) ==
  FMul(FMul(FAdd(FMul(FNeg(FromInt(2)), t), FromInt(3)), t), t)

quinticStepF(t) ==
  FMul(FMul(FMul(FAdd(FMul(FSub(FMul(FromInt(6), t), FromInt(15)), t),
                      FromInt(10)), t), t), t)

cosineStepF(t) == FMul(FSub(FromInt(1), Cos(FMul(pi, t))), Half)

linearStepI(t) == t

cubicStepI(t) == (-2 * t + 3) * t * t

\* quinticStep with one factor t missing
quinticStepIShort(t) == ((6 * t - 15) * t + 10) * t * t

quinticStepI(t) == ((6 * t - 15) * t + 10) * t * t * t

\* the polynomial the documentation of cubicStep gives: -2 t^3 + 3 t^2
cubicDoc(t) == -2 * t^3 + 3 * t^2

\* the polynomial the documentation of quinticStep gives
quinticDoc(t) == 6 * t^5 - 15 * t^4 + 10 * t^3

\* lerp<T, U> with T and U the floating-point type
lerpF(lhs, rhs, t) == FAdd(FMul(FSub(FromInt(1), t), lhs), FMul(t, rhs))

\* lerp<T, U> with T a signed integer type and U the floating-point type:
\* lhs and rhs are converted to U, the result is converted back to T
lerpI(lhs, rhs, t) ==
  ToInt(FAdd(FMul(FSub(FromInt(1), t), FromInt(lhs)), FMul(t, FromInt(rhs))))

\* clamp with the branches of its second test exchanged
clampSwapped(val, lo, hi) ==
  IF val < lo THEN lo ELSE (IF val > hi THEN val ELSE hi)

clamp(val, lo, hi) == IF val < lo THEN lo ELSE (IF val > hi THEN hi ELSE val)

\* a comparison converted to int
BoolToInt(p) == IF p THEN 1 ELSE 0

\* sign without its second comparison
signNoNegative(val) == BoolToInt(val > 0)

sign(val) == BoolToInt(val > 0) - BoolToInt(val < 0)

\* absdiff as the absolute value of the (unsigned) difference
absdiffWrapping(lhs, rhs) == ToUnsigned(lhs - rhs)

\* absdiff<T> with T the unsigned type
absdiff(lhs, rhs) ==
  IF lhs > rhs THEN ToUnsigned(lhs - rhs) ELSE ToUnsigned(rhs - lhs)

(***************************************************************************)
(* The arguments the caller passes.                                        *)
(***************************************************************************)
\* the floating-point values of the unit interval
UnitFloats == { x \in Floats : 0 <= x /\ x <= One }

\* the values of epsilon almostEquals is called with
EpsSet == { 0, DenormMin, MachineEpsilon, Half, One, 2 * One, -One }

\* the floating-point values lerp is called with: 0 and those of [1, 2]
LerpFloats == { x \in Floats : x = 0 \/ (One <= FAbs(x) /\ FAbs(x) <= 2 * One) }

\* the integers lerp is called with: the small ones, and the first integer
\* the floating-point type cannot represent
LerpInts == (-MaxLerpArg .. MaxLerpArg) \cup { 2^P + 1, -(2^P + 1) }

StepInts == -MaxStepArg .. MaxStepArg

(***************************************************************************)
(* The caller.                                                             *)
(***************************************************************************)
Init ==
  /\ fn = "none"
  /\ ty = "none"
  /\ a = 0 /\ b = 0 /\ c = 0
  /\ ret = 0
  /\ flag = FALSE

\* what a call that returns a number leaves
Returned(f, t, x, y, z, r) ==
  /\ fn' = f /\ ty' = t
  /\ a' = x /\ b' = y /\ c' = z
  /\ ret' = r
  /\ flag' = FALSE

Call_almostEquals ==
  /\ fn = "none"
  /\ \E x \in Floats, y \in Floats, e \in EpsSet :
       /\ fn' = "almostEquals" /\ ty' = "float"
       /\ a' = x /\ b' = y /\ c' = e
       /\ ret' = 0
       /\ flag' = almostEquals(x, y, e)

Call_linearStep ==
  /\ fn = "none"
  /\ \/ \E t \in UnitFloats :
          Returned("linearStep", "float", t, 0, 0, linearStepF(t))
     \/ \E t \in StepInts :
          Returned("linearStep", "int", t, 0, 0, linearStepI(t))

Call_cubicStep ==
  /\ fn = "none"
  /\ \/ \E t \in UnitFloats :
          Returned("cubicStep", "float", t, 0, 0, cubicStepF(t))
     \/ \E t \in StepInts :
          Returned("cubicStep", "int", t, 0, 0, cubicStepI(t))

Call_quinticStep ==
  /\ fn = "none"
  /\ \/ \E t \in UnitFloats :
          Returned("quinticStep", "float", t, 0, 0, quinticStepF(t))
     \/ \E t \in StepInts :
          Returned("quinticStep", "int", t, 0, 0, quinticStepI(t))

Call_cosineStep ==
  /\ fn = "none"
  /\ \E t \in UnitFloats :
       Returned("cosineStep", "float", t, 0, 0, cosineStepF(t))

Call_lerp ==
  /\ fn = "none"
  /\ \/ \E l \in LerpFloats, r \in LerpFloats, t \in UnitFloats :
          Returned("lerp", "float", l, r, t, lerpF(l, r, t))
     \/ \E l \in LerpInts, r \in LerpInts, t \in UnitFloats :
          Returned("lerp", "int", l, r, t, lerpI(l, r, t))

Call_clamp ==
  /\ fn = "none"
  /\ \E val \in IntT, lo \in IntT, hi \in IntT :
       Returned("clamp", "int", val, lo, hi, clamp(val, lo, hi))

Call_sign ==
  /\ fn = "none"
  /\ \/ \E val \in IntT : Returned("sign", "int", val, 0, 0, sign(val))
     \/ \E val \in UIntT : Returned("sign", "uint", val, 0, 0, sign(val))

Call_absdiff ==
  /\ fn = "none"
  /\ \E l \in UIntT, r \in UIntT :
       Returned("absdiff", "uint", l, r, 0, absdiff(l, r))

\* the caller is done with the result
Return ==
  /\ fn # "none"
  /\ fn' = "none" /\ ty' = "none"
  /\ a' = 0 /\ b' = 0 /\ c' = 0
  /\ ret' = 0
  /\ flag' = FALSE

Next ==
  \/ Call_almostEquals
  \/ Call_linearStep
  \/ Call_cubicStep
  \/ Call_quinticStep
  \/ Call_cosineStep
  \/ Call_lerp
  \/ Call_clamp
  \/ Call_sign
  \/ Call_absdiff
  \/ Return

Spec == Init /\ [][Next]_vars

(***************************************************************************)
(* The properties.                                                         *)
(***************************************************************************)
Min(x, y) == IF x < y THEN x ELSE y

Max(x, y) == IF x < y THEN y ELSE x

\* the value 1 of the type a helper was instantiated for
OneOf(t) == IF t = "float" THEN One ELSE 1

\* C1: for val, lo, hi of the signed integer type with lo <= hi, clamp
\* returns a value of [lo, hi]: lo when val < lo, hi when val > hi, and val
\* itself otherwise.
C1_ClampInRange ==
  (fn = "clamp" /\ b <= c) =>
    /\ b <= ret /\ ret <= c
    /\ (a < b => ret = b)
    /\ (a > c => ret = c)
    /\ (b <= a /\ a <= c => ret = a)

C1_Witness == fn = "clamp" /\ b < c /\ a > c /\ ret = c

\* C2: lerp(a, b, 0) is exactly a and lerp(a, b, 1) is exactly b, for all
\* a and b.
C2_LerpEndpoints ==
  fn = "lerp" => /\ (c = 0 => ret = a)
                 /\ (c = One => ret = b)

\* C3: sign returns -1 for x < 0, 0 for x = 0, +1 for x > 0 and nothing
\* else; for the unsigned type it returns only 0 or +1.
C3_Sign ==
  fn = "sign" =>
    /\ ret \in {-1, 0, 1}
    /\ (a < 0 => ret = -1)
    /\ (a = 0 => ret = 0)
    /\ (a > 0 => ret = 1)
    /\ (ty = "uint" => ret \in {0, 1})

C3_Witness == fn = "sign" /\ ty = "int" /\ a < 0 /\ ret = -1

\* C4: for a, b of the unsigned W-bit type, absdiff(a, b) is the
\* mathematical |a - b| (its subtraction never wraps below zero), and
\* absdiff(a, b) = absdiff(b, a).
C4_AbsdiffUnsigned ==
  fn = "absdiff" =>
    /\ ret = (IF a >= b THEN a - b ELSE b - a)
    /\ ret = absdiff(b, a)

C4_Witness == fn = "absdiff" /\ a = 3 /\ b = 10 /\ ret = 7

\* C5: each of linearStep, cubicStep, quinticStep and cosineStep maps 0 to
\* 0 and 1 to 1.
C5_StepEndpoints ==
  fn \in {"linearStep", "cubicStep", "quinticStep", "cosineStep"} =>
    /\ (a = 0 => ret = 0)
    /\ (a = OneOf(ty) => ret = OneOf(ty))

C5_Witness == fn = "cosineStep" /\ ty = "float" /\ a = One /\ ret = One

\* C6: for every t of the unit interval, linearStep(t), cubicStep(t) and
\* quinticStep(t) return a value of [0, 1].
C6_StepUnitInterval ==
  (fn \in {"linearStep", "cubicStep", "quinticStep"} /\ ty = "float"
     /\ 0 <= a /\ a <= One) =>
    (0 <= ret /\ ret <= One)

\* C7: for every lhs, rhs and every t of [0, 1], lerp(lhs, rhs, t) is
\* between min(lhs, rhs) and max(lhs, rhs), also when the result is
\* converted back to an integer type.
C7_LerpBetween ==
  (fn = "lerp" /\ 0 <= c /\ c <= One) =>
    (Min(a, b) <= ret /\ ret <= Max(a, b))

\* C8: for every finite x and every epsilon (zero and negative included),
\* almostEquals(x, x, epsilon) is true.
C8_AlmostEqualsReflexive ==
  (fn = "almostEquals" /\ a = b) => flag = TRUE

C8_Witness == fn = "almostEquals" /\ a = b /\ a # 0 /\ c < 0 /\ flag = TRUE

\* C9: in exact (integer) arithmetic the factored expression cubicStep
\* computes equals -2t^3 + 3t^2, and the one quinticStep computes equals
\* 6t^5 - 15t^4 + 10t^3.
C9_FactoredEqualsDocumented ==
  /\ (fn = "cubicStep" /\ ty = "int") => ret = cubicDoc(a)
  /\ (fn = "quinticStep" /\ ty = "int") => ret = quinticDoc(a)

C9_Witness == fn = "quinticStep" /\ ty = "int" /\ a = 2 /\ ret = 32

\* C10: with epsilon <= 1, almostEquals(a, b, epsilon) is false whenever
\* a # b and the near-zero branch is taken (a or b is zero, or the
\* difference is below denorm_min): zero is almost equal to zero only.
C10_NearZeroNeverEqual ==
  (/\ fn = "almostEquals"
   /\ a # b
   /\ (a = 0 \/ b = 0 \/ FAbs(FSub(a, b)) < DenormMin)
   /\ c <= One) =>
    flag = FALSE

C10_Witness ==
  fn = "almostEquals" /\ a = 0 /\ b = DenormMin /\ c = One /\ flag = FALSE

=============================================================================
